---- MODULE Spec2Model ----
(***************************************************************************)
(* Black / Bachelier pricing formulas (ql/pricingengines/blackformula.cpp) *)
(* and the lazily bootstrapped piecewise yield curve                       *)
(* (ql/termstructures/yield/piecewiseyieldcurve.hpp).                      *)
(*                                                                         *)
(* A Real is modelled as a fixed-point integer counting millionths: the    *)
(* Real 0.95 is 950000.  Products and quotients are computed digit-wise so *)
(* that no intermediate value leaves the 32-bit range, and are truncated   *)
(* toward zero, the fixed-point analogue of floating-point rounding.       *)
(***************************************************************************)
EXTENDS Integers, Sequences, FiniteSets

\* One unit of a Real: 1.0 is ONE millionths.
ONE == 1000000

Abs(x) == IF x < 0 THEN -x ELSE x

Sgn(x) == IF x < 0 THEN -1 ELSE 1

Max(a, b) == IF a >= b THEN a ELSE b

\* a*b on Reals, truncated toward zero.  |a| = ah*1000 + al, |b| likewise.
Mul(a, b) ==
    LET ah == Abs(a) \div 1000
        al == Abs(a) % 1000
        bh == Abs(b) \div 1000
        bl == Abs(b) % 1000
        mid == ah * bl + al * bh
        low == al * bl + (mid % 1000) * 1000
    IN  Sgn(a) * Sgn(b) * (ah * bh + mid \div 1000 + low \div ONE)

\* The n next decimal digits of r/b (0 <= r < b), as an integer.
RECURSIVE DivDigits(_, _, _)
DivDigits(r, b, n) ==
    IF n = 0 THEN 0
    ELSE LET q == (r * 10) \div b
             s == (r * 10) % b
             t == DivDigits(s, b, n - 1)
             p == IF n = 1 THEN 1 ELSE IF n = 2 THEN 10 ELSE IF n = 3 THEN 100
                  ELSE IF n = 4 THEN 1000 ELSE IF n = 5 THEN 10000 ELSE 100000
         IN  q * p + t

\* a/b on Reals, b # 0, truncated toward zero.
Div(a, b) ==
    LET x == Abs(a)
        y == Abs(b)
    IN  Sgn(a) * Sgn(b) * ((x \div y) * ONE + DivDigits(x % y, y, 6))

\* Integer square root: the largest r with r*r <= n (Newton's iteration).
RECURSIVE ISqrtFrom(_, _)
ISqrtFrom(n, r) ==
    LET s == (r + n \div r) \div 2
    IN  IF s >= r THEN r ELSE ISqrtFrom(n, s)

ISqrt(n) == IF n <= 0 THEN 0 ELSE IF n < 4 THEN 1 ELSE ISqrtFrom(n, n \div 2)

\* std::sqrt on a Real x >= 0: sqrt(x/ONE)*ONE = isqrt(x)*1000, refined by one
\* more decimal digit while x*100 still fits.
Sqrt(x) ==
    IF x < 20000000 THEN ISqrt(x * 100) * 100 ELSE ISqrt(x) * 1000

\* ln(2) as a Real.
LN2 == 693147

\* ln(m) for 1 <= m < 2 (as Reals): 2*atanh(z), z = (m-1)/(m+1) <= 1/3.
LnMantissa(m) ==
    LET z  == Div(m - ONE, m + ONE)
        z2 == Mul(z, z)
        z3 == Mul(z, z2)
        z5 == Mul(z3, z2)
        z7 == Mul(z5, z2)
        z9 == Mul(z7, z2)
    IN  2 * (z + z3 \div 3 + z5 \div 5 + z7 \div 7 + z9 \div 9)

\* std::log on a Real x > 0: x = m * 2^k with 1 <= m < 2.
RECURSIVE Ln(_)
Ln(x) ==
    IF x >= 2 * ONE THEN LN2 + Ln(x \div 2)
    ELSE IF x < ONE THEN Ln(x * 2) - LN2
    ELSE LnMantissa(x)

\* Standard normal distribution function and density at 0, 0.05, ..., 6.0.
CdfTable ==
    << 500000, 519939, 539828, 559618, 579260, 598706, 617911, 636831,
       655422, 673645, 691462, 708840, 725747, 742154, 758036, 773373,
       788145, 802337, 815940, 828944, 841345, 853141, 864334, 874928,
       884930, 894350, 903200, 911492, 919243, 926471, 933193, 939429,
       945201, 950529, 955435, 959941, 964070, 967843, 971283, 974412,
       977250, 979818, 982136, 984222, 986097, 987776, 989276, 990613,
       991802, 992857, 993790, 994614, 995339, 995975, 996533, 997020,
       997445, 997814, 998134, 998411, 998650, 998856, 999032, 999184,
       999313, 999423, 999517, 999596, 999663, 999720, 999767, 999807,
       999841, 999869, 999892, 999912, 999928, 999941, 999952, 999961,
       999968, 999974, 999979, 999983, 999987, 999989, 999991, 999993,
       999995, 999996, 999997, 999997, 999998, 999998, 999999, 999999,
       999999, 999999, 1000000, 1000000, 1000000, 1000000, 1000000, 1000000,
       1000000, 1000000, 1000000, 1000000, 1000000, 1000000, 1000000, 1000000,
       1000000, 1000000, 1000000, 1000000, 1000000, 1000000, 1000000, 1000000,
       1000000 >>

PdfTable ==
    << 398942, 398444, 396953, 394479, 391043, 386668, 381388, 375240,
       368270, 360527, 352065, 342944, 333225, 322972, 312254, 301137,
       289692, 277985, 266085, 254059, 241971, 229882, 217852, 205936,
       194186, 182649, 171369, 160383, 149727, 139431, 129518, 120009,
       110921, 102265, 94049, 86277, 78950, 72065, 65616, 59595,
       53991, 48792, 43984, 39550, 35475, 31740, 28327, 25218,
       22395, 19837, 17528, 15449, 13583, 11912, 10421, 9094,
       7915, 6873, 5953, 5143, 4432, 3810, 3267, 2794,
       2384, 2029, 1723, 1459, 1232, 1038, 873, 732,
       612, 510, 425, 353, 292, 241, 199, 163,
       134, 109, 89, 73, 59, 48, 39, 31,
       25, 20, 16, 13, 10, 8, 6, 5,
       4, 3, 2, 2, 1, 1, 1, 1,
       1, 0, 0, 0, 0, 0, 0, 0,
       0, 0, 0, 0, 0, 0, 0, 0,
       0 >>

\* Distance between two entries of the tables: 0.05.
TableStep == 50000

\* Linear interpolation in a table of an even or odd function's right half.
Interpolate(table, x) ==
    LET i == x \div TableStep
        r == x % TableStep
    IN  IF i + 1 >= Len(table) THEN table[Len(table)]
        ELSE table[i + 1] + ((table[i + 2] - table[i + 1]) * r) \div TableStep

\* CumulativeNormalDistribution::operator(): the distribution function, in [0, 1].
CumulativeNormal(x) ==
    IF x >= 0 THEN Interpolate(CdfTable, x) ELSE ONE - Interpolate(CdfTable, -x)

\* CumulativeNormalDistribution::derivative: the density, >= 0.
NormalDerivative(x) == Interpolate(PdfTable, Abs(x))

(***************************************************************************)
(* Extended reals.  IEEE arithmetic never traps: a division by zero or the *)
(* logarithm of a non-positive number yields an infinity or a NaN, which   *)
(* the code then carries on with.  An extended real is a record            *)
(* [cls, v] with cls one of "fin", "pinf", "ninf", "nan".                  *)
(***************************************************************************)
Fin(v) == [cls |-> "fin", v |-> v]

PInf == [cls |-> "pinf", v |-> 0]

NInf == [cls |-> "ninf", v |-> 0]

NaN == [cls |-> "nan", v |-> 0]

ExtNeg(e) ==
    IF e.cls = "fin" THEN Fin(-e.v)
    ELSE IF e.cls = "pinf" THEN NInf
    ELSE IF e.cls = "ninf" THEN PInf
    ELSE NaN

\* optionType * e, optionType being +1 or -1.
ExtSigned(optionType, e) == IF optionType = 1 THEN e ELSE ExtNeg(e)

\* std::log(f/k) on Reals, with the IEEE results for k = 0 and f/k <= 0.
ExtLogRatio(f, k) ==
    IF k = 0
    THEN (IF f > 0 THEN PInf ELSE NaN)
    ELSE LET r == Div(f, k)
         IN  IF r > 0 THEN Fin(Ln(r))
             ELSE IF r = 0 THEN NInf
             ELSE NaN

\* e / s for a Real s.
ExtDiv(e, s) ==
    IF e.cls = "nan" THEN NaN
    ELSE IF e.cls = "fin"
    THEN (IF s # 0 THEN Fin(Div(e.v, s))
          ELSE IF e.v > 0 THEN PInf
          ELSE IF e.v < 0 THEN NInf
          ELSE NaN)
    ELSE IF s >= 0 THEN e ELSE ExtNeg(e)

\* e + x for a Real x.
ExtAdd(e, x) == IF e.cls = "fin" THEN Fin(e.v + x) ELSE e

\* The distribution function of an extended real.
ExtCumulativeNormal(e) ==
    IF e.cls = "fin" THEN Fin(CumulativeNormal(e.v))
    ELSE IF e.cls = "pinf" THEN Fin(ONE)
    ELSE IF e.cls = "ninf" THEN Fin(0)
    ELSE NaN

\* The density of an extended real.
ExtNormalDerivative(e) ==
    IF e.cls = "fin" THEN Fin(NormalDerivative(e.v))
    ELSE IF e.cls = "nan" THEN NaN
    ELSE Fin(0)

(***************************************************************************)
(* Outcomes of a call: a returned value or a raised error.                 *)
(*   kind    "value", "NaN" (a returned NaN), "InvalidArgument"            *)
(*           (QL_REQUIRE), "GuardFailure" (QL_ENSURE), "ConvergenceError"  *)
(*   val     the returned Real (0 when an error is raised)                 *)
(*   branch  the return path taken                                         *)
(*   raw     the Real computed before the post-condition was checked       *)
(***************************************************************************)
Outcome(kind, val, branch, raw) ==
    [kind |-> kind, val |-> val, branch |-> branch, raw |-> raw]

Value(v, branch) == Outcome("value", v, branch, v)

InvalidArgument == Outcome("InvalidArgument", 0, "rejected", 0)

\* QL_ENSURE(result >= 0.0, ...); return result;
Ensured(result, branch) ==
    IF result >= 0 THEN Value(result, branch)
    ELSE Outcome("GuardFailure", 0, branch, result)

\* Option::Type
Call == 1

Put == -1

\* The QL_REQUIREs of blackFormula, lines 38-47.
BlackFormulaRequire(strike, forward, stdDev, discount, displacement) ==
    /\ strike >= 0
    /\ forward > 0
    /\ stdDev >= 0
    /\ discount > 0
    /\ displacement >= 0

\* Mutant: the test made on the strike as passed, before the shift.
BlackFormulaZeroStrikeUnshifted(strike, displacement) == strike = 0

\* The test of line 53, made on the strike that line 50 has shifted.
BlackFormulaZeroStrike(strike, displacement) == strike + displacement = 0

\* Mutant: the intrinsic value without its floor at zero.
BlackFormulaIntrinsicUnfloored(optionType, f, k, discount) ==
    Mul((f - k) * optionType, discount)

\* The return of line 52, for the shifted forward f and strike k.
BlackFormulaIntrinsic(optionType, f, k, discount) ==
    Mul(Max((f - k) * optionType, 0), discount)

\* The general formula of lines 55-59, for the shifted forward f and strike k.
BlackFormulaGeneral(optionType, f, k, stdDev, discount) ==
    LET d1 == Div(Ln(Div(f, k)), stdDev) + Mul(ONE \div 2, stdDev)
        d2 == d1 - stdDev
    IN  Mul(discount * optionType,
            Mul(f, CumulativeNormal(optionType * d1))
            - Mul(k, CumulativeNormal(optionType * d2)))

\* QL_ENSURE(result>=0.0, ...); return result;  lines 60-64.
BlackFormulaEnsure(result) == Ensured(result, "general")

\* blackFormula, lines 32-65.
blackFormula(optionType, strike, forward, stdDev, discount, displacement) ==
    IF ~BlackFormulaRequire(strike, forward, stdDev, discount, displacement)
    THEN InvalidArgument
    ELSE LET f == forward + displacement
             k == strike + displacement
         IN  IF stdDev = 0
             THEN Value(BlackFormulaIntrinsic(optionType, f, k, discount),
                        "intrinsic")
             ELSE IF BlackFormulaZeroStrike(strike, displacement)
             THEN Value(IF optionType = Call THEN Mul(f, discount) ELSE 0,
                        "zeroStrike")
             ELSE BlackFormulaEnsure(
                      BlackFormulaGeneral(optionType, f, k, stdDev, discount))

\* Mutant: the displacement check left out.
StdDevDerivativeRequireNoDisplacement(strike, forward, stdDev, discount, displacement) ==
    /\ strike >= 0
    /\ forward > 0
    /\ stdDev >= 0
    /\ discount > 0

\* The QL_REQUIREs of blackFormulaStdDevDerivative, lines 273-282.
StdDevDerivativeRequire(strike, forward, stdDev, discount, displacement) ==
    /\ strike >= 0
    /\ forward > 0
    /\ stdDev >= 0
    /\ discount > 0
    /\ displacement >= 0

\* blackFormulaStdDevDerivative, lines 271-290.  Nothing guards the division
\* by stdDev or by the shifted strike: the IEEE result is carried through.
blackFormulaStdDevDerivative(strike, forward, stdDev, discount, displacement) ==
    IF ~StdDevDerivativeRequire(strike, forward, stdDev, discount, displacement)
    THEN InvalidArgument
    ELSE LET f == forward + displacement
             k == strike + displacement
             d1 == ExtAdd(ExtDiv(ExtLogRatio(f, k), stdDev),
                          Mul(ONE \div 2, stdDev))
             dens == ExtNormalDerivative(d1)
         IN  IF dens.cls = "nan" THEN Outcome("NaN", 0, "general", 0)
             ELSE Value(Mul(Mul(discount, f), dens.v), "general")

\* M_PI
M_PI == 3141593

\* The QL_REQUIREs of blackFormulaImpliedStdDevApproximation, lines 88-97.
ApproximationRequire(strike, forward, blackPrice, discount, displacement) ==
    /\ strike >= 0
    /\ forward > 0
    /\ blackPrice >= 0
    /\ discount > 0
    /\ displacement >= 0

\* Mutant: the negative discriminant left as it is.
ClampDiscriminantMissing(temp2) == temp2

\* if (temp2<0.0) temp2=0.0;  lines 112-114.
ClampDiscriminant(temp2) == IF temp2 < 0 THEN 0 ELSE temp2

\* temp of line 109, for the shifted forward f and strike k.
ApproximationTemp(optionType, k, f, blackPrice, discount) ==
    Div(blackPrice, discount) - (optionType * (f - k)) \div 2

\* The discriminant temp2 of lines 107-111, for the shifted forward f and
\* strike k.
Discriminant(optionType, k, f, blackPrice, discount) ==
    LET moneynessDelta == optionType * (f - k)
        temp == ApproximationTemp(optionType, k, f, blackPrice, discount)
    IN  Mul(temp, temp) - Div(Mul(moneynessDelta, moneynessDelta), M_PI)

\* QL_ENSURE(stdDev>=0.0, ...); return stdDev;  lines 122-124.
ApproximationEnsure(stdDev, branch) == Ensured(stdDev, branch)

\* blackFormulaImpliedStdDevApproximation, lines 82-125.
blackFormulaImpliedStdDevApproximation(optionType, strike, forward, blackPrice, discount, displacement) ==
    IF ~ApproximationRequire(strike, forward, blackPrice, discount, displacement)
    THEN InvalidArgument
    ELSE LET f == forward + displacement
             k == strike + displacement
         IN  IF k = f
             THEN ApproximationEnsure(
                      Div(Mul(Div(blackPrice, discount), Sqrt(2 * M_PI)), f),
                      "atm")
             ELSE LET temp == ApproximationTemp(optionType, k, f, blackPrice,
                                                discount)
                      temp2 == Discriminant(optionType, k, f, blackPrice, discount)
                      clamped == ClampDiscriminant(temp2)
                      sum == Mul(temp + Sqrt(clamped), Sqrt(2 * M_PI))
                      branch == IF temp2 < 0 THEN "clamped" ELSE "offMoney"
                  IN  IF clamped < 0
                      \* std::sqrt of a negative number is a NaN, and so is
                      \* stdDev: stdDev>=0.0 is false and QL_ENSURE fails.
                      THEN Outcome("GuardFailure", 0, "nan", 0)
                      ELSE ApproximationEnsure(Div(sum, f + k), branch)

(***************************************************************************)
(* BlackImpliedStdDevHelper, lines 138-188: the residual                   *)
(* "undiscounted model price - undiscounted target price".                 *)
(***************************************************************************)
\* The QL_REQUIREs of the constructor, lines 149-155.
HelperRequire(strike, forward, undiscountedBlackPrice) ==
    /\ strike >= 0
    /\ forward > 0
    /\ undiscountedBlackPrice >= 0

\* The constructor, lines 140-157.
BlackImpliedStdDevHelper(optionType, strike, forward, undiscountedBlackPrice, displacement) ==
    [halfOptionType |-> optionType * (ONE \div 2),
     signedStrike |-> optionType * (strike + displacement),
     signedForward |-> optionType * (forward + displacement),
     undiscountedBlackPrice |-> undiscountedBlackPrice,
     signedMoneyness |->
         ExtSigned(optionType,
                   ExtLogRatio(forward + displacement, strike + displacement))]

\* operator(), lines 158-174.
HelperValue(h, stdDev) ==
    IF stdDev = 0
    THEN Max(h.signedForward - h.signedStrike, 0) - h.undiscountedBlackPrice
    ELSE LET temp == Mul(h.halfOptionType, stdDev)
             d == ExtDiv(h.signedMoneyness, stdDev)
             n1 == ExtCumulativeNormal(ExtAdd(d, temp))
             n2 == ExtCumulativeNormal(ExtAdd(d, -temp))
             result == Mul(h.signedForward, n1.v) - Mul(h.signedStrike, n2.v)
         IN  Max(0, result) - h.undiscountedBlackPrice

(***************************************************************************)
(* NewtonSafe::solve(f, accuracy, guess, xMin, xMax), the safeguarded      *)
(* root-finder: it returns a root of f in [xMin, xMax] located to within   *)
(* accuracy, and fails when [xMin, xMax] does not bracket a root.  Which   *)
(* root it converges to is its own business: SolverRoots is the set of the *)
(* answers it may give, the points of the accuracy-spaced grid on          *)
(* [xMin, xMax] at which f vanishes or next to which f changes sign.       *)
(***************************************************************************)
SolverGrid(accuracy, xMin, xMax) ==
    {xMin + i * accuracy : i \in 0..((xMax - xMin) \div accuracy)} \cup {xMax}

SolverRoots(h, accuracy, xMin, xMax) ==
    LET grid == SolverGrid(accuracy, xMin, xMax)
    IN  {x \in grid :
            \/ HelperValue(h, x) = 0
            \/ \E y \in grid :
                  /\ y # x
                  /\ Abs(y - x) <= accuracy
                  /\ \/ HelperValue(h, x) < 0 /\ HelperValue(h, y) > 0
                     \/ HelperValue(h, x) > 0 /\ HelperValue(h, y) < 0}

\* The set of outcomes of solve: a root, or a convergence error when f has
\* the same strict sign at both ends of the bracket.
NewtonSafeSolve(h, accuracy, guess, xMin, xMax) ==
    LET fxMin == HelperValue(h, xMin)
        fxMax == HelperValue(h, xMax)
    IN  IF fxMin # 0 /\ fxMax # 0 /\ (fxMin < 0) = (fxMax < 0)
        THEN {Outcome("ConvergenceError", 0, "notBracketed", 0)}
        ELSE {Value(x, "solved") : x \in SolverRoots(h, accuracy, xMin, xMax)}

\* Null<Real>(): the "no guess supplied" sentinel.
NullReal == 2147483647

\* Real minSdtDev = 0.0, maxStdDev = 3.0;
minStdDev == 0

maxStdDev == 3000000

\* The QL_REQUIREs of blackFormulaImpliedStdDev, lines 199-208.
ImpliedStdDevRequire(strike, forward, blackPrice, discount, displacement) ==
    /\ strike >= 0
    /\ forward > 0
    /\ blackPrice >= 0
    /\ discount > 0
    /\ displacement >= 0

\* The seed of lines 212-217, for the already shifted strike k and forward f:
\* the approximation when no guess is supplied, else the checked guess.
ImpliedStdDevSeed(optionType, k, f, blackPrice, discount, guess, displacement) ==
    IF guess = NullReal
    THEN blackFormulaImpliedStdDevApproximation(optionType, k, f, blackPrice,
                                                discount, displacement)
    ELSE IF guess >= 0 THEN Value(guess, "guess") ELSE InvalidArgument

\* Lines 199-217: what the function has for the solver's guess when it
\* reaches line 218, or the error raised before.
ImpliedStdDevGuess(optionType, strike, forward, blackPrice, discount, guess, displacement) ==
    IF ~ImpliedStdDevRequire(strike, forward, blackPrice, discount, displacement)
    THEN InvalidArgument
    ELSE ImpliedStdDevSeed(optionType, strike + displacement,
                           forward + displacement, blackPrice, discount,
                           guess, displacement)

\* Mutant: the helper given the discounted price.
ImpliedStdDevHelperDiscounted(optionType, k, f, blackPrice, discount) ==
    BlackImpliedStdDevHelper(optionType, k, f, blackPrice, 0)

\* BlackImpliedStdDevHelper f(optionType, strike, forward, blackPrice/discount),
\* lines 218-219, for the already shifted strike k and forward f.
ImpliedStdDevHelper(optionType, k, f, blackPrice, discount) ==
    BlackImpliedStdDevHelper(optionType, k, f, Div(blackPrice, discount), 0)

\* blackFormulaImpliedStdDev, lines 191-228: the set of its outcomes.
blackFormulaImpliedStdDev(optionType, strike, forward, blackPrice, discount, guess, accuracy, displacement) ==
    IF ~ImpliedStdDevRequire(strike, forward, blackPrice, discount, displacement)
    THEN {InvalidArgument}
    ELSE LET k == strike + displacement
             f == forward + displacement
             seed == ImpliedStdDevSeed(optionType, k, f, blackPrice, discount,
                                       guess, displacement)
             h == ImpliedStdDevHelper(optionType, k, f, blackPrice, discount)
         IN  IF seed.kind # "value" THEN {seed}
             ELSE IF ~HelperRequire(k, f, Div(blackPrice, discount))
             THEN {InvalidArgument}
             ELSE {IF r.kind = "value" THEN Ensured(r.val, "solved") ELSE r :
                     r \in NewtonSafeSolve(h, accuracy, seed.val,
                                           minStdDev, maxStdDev)}

\* if (strike==0.0), line 252.
CashItmZeroStrike(strike, displacement) == strike = 0

\* phi(optionType*d2) of lines 254-257, for a forward f and a strike k.
CashItmGeneral(optionType, f, k, stdDev) ==
    LET d1 == ExtAdd(ExtDiv(ExtLogRatio(f, k), stdDev), Mul(ONE \div 2, stdDev))
        d2 == ExtAdd(d1, -stdDev)
        p == ExtCumulativeNormal(ExtSigned(optionType, d2))
    IN  IF p.cls = "nan" THEN Outcome("NaN", 0, "general", 0)
        ELSE Value(p.v, "general")

\* blackFormulaCashItmProbability, lines 245-258.  It has no QL_REQUIRE.
blackFormulaCashItmProbability(optionType, strike, forward, stdDev, displacement) ==
    IF stdDev = 0
    THEN Value(IF forward * optionType > strike * optionType THEN ONE ELSE 0,
               "intrinsic")
    ELSE IF CashItmZeroStrike(strike, displacement)
    THEN Value(IF optionType = Call THEN ONE ELSE 0, "zeroStrike")
    ELSE CashItmGeneral(optionType, forward + displacement,
                        strike + displacement, stdDev)

\* The QL_REQUIREs of bachelierBlackFormula, lines 309-312.
BachelierRequire(stdDev, discount) ==
    /\ stdDev >= 0
    /\ discount > 0

\* Real result = discount*stdDev*phi.derivative(h) + d*phi(h);  line 317.
BachelierResult(d, h, stdDev, discount) ==
    Mul(Mul(discount, stdDev), NormalDerivative(h)) + Mul(d, CumulativeNormal(h))

\* Mutant: the result returned without its post-condition.
BachelierEnsureMissing(result) == Value(result, "general")

\* QL_ENSURE(result>=0.0, ...); return result;  lines 318-323.
BachelierEnsure(result) == Ensured(result, "general")

\* bachelierBlackFormula, lines 304-324.
bachelierBlackFormula(optionType, strike, forward, stdDev, discount) ==
    IF ~BachelierRequire(stdDev, discount)
    THEN InvalidArgument
    ELSE LET d == (forward - strike) * optionType
         IN  IF stdDev = 0
             THEN Value(Mul(discount, Max(d, 0)), "intrinsic")
             ELSE BachelierEnsure(BachelierResult(d, Div(d, stdDev), stdDev,
                                                  discount))

(***************************************************************************)
(* The pricing functions as a state machine: from the idle state a call    *)
(* picks its arguments and records them with its outcome; after a          *)
(* successful blackFormula the returned price can be handed to             *)
(* blackFormulaImpliedStdDev (the round trip).                             *)
(***************************************************************************)
VARIABLES
    op,          \* the function called last ("none" before any call)
    args,        \* its arguments
    ret,         \* its outcome
    seed,        \* the guess blackFormulaImpliedStdDev has for solver.solve
    curve,       \* the PiecewiseYieldCurve object
    curveOp,     \* the curve member function called last ("none" before any)
    curveRet     \* its outcome

pricerVars == <<op, args, ret, seed>>

curveVars == <<curve, curveOp, curveRet>>

vars == <<op, args, ret, seed, curve, curveOp, curveRet>>

\* Bounds of the sampled arguments.
MaxStrike == 2

MaxForward == 2

MaxStdDevSteps == 7

MaxDisplacement == 1

OptionTypes == {Call, Put}

Strikes == {-ONE} \cup {i * ONE : i \in 0..MaxStrike}

Forwards == {0} \cup {i * ONE : i \in 1..MaxForward}

\* Standard deviations -0.5, 0, 0.5, 1.0, ...: below, inside and above the
\* solver's bracket.
StdDevs == {-(ONE \div 2)} \cup {i * (ONE \div 2) : i \in 0..MaxStdDevSteps}

Discounts == {0, ONE \div 2, 950000, ONE}

Displacements == {-ONE} \cup {i * ONE : i \in 0..MaxDisplacement}

BlackPrices == {-ONE, 0, ONE \div 4, ONE, 2 * ONE}

\* The guesses of the caller: none, a negative one, and some inside the
\* solver's bracket.
Guesses == {NullReal, -(ONE \div 2), 0, ONE \div 2, ONE}

\* The accuracy handed to the solver.
Accuracies == {ONE \div 4}

Args(optionType, strike, forward, stdDev, blackPrice, discount, guess, accuracy, displacement) ==
    [optionType |-> optionType, strike |-> strike, forward |-> forward,
     stdDev |-> stdDev, blackPrice |-> blackPrice, discount |-> discount,
     guess |-> guess, accuracy |-> accuracy, displacement |-> displacement]

NoArgs == Args(Call, 0, 0, 0, 0, 0, 0, 0, 0)

NoOutcome == Outcome("none", 0, "none", 0)

\* The sampled argument tuples of the five-argument pricing functions, and
\* the scenario "strike 90, forward 100, discount 0.95, stdDev 0".
PricingInputs ==
    {Args(t, k, f, s, 0, c, 0, 0, d) :
        t \in OptionTypes, k \in Strikes, f \in Forwards, s \in StdDevs,
        c \in Discounts, d \in Displacements}
    \cup {Args(t, 90 * ONE, 100 * ONE, 0, 0, 950000, 0, 0, d) :
            t \in OptionTypes, d \in {0, ONE}}

PricerCall(name, a, outcome) ==
    /\ op = "none"
    /\ op' = name
    /\ args' = a
    /\ ret' = outcome
    /\ seed' = NoOutcome
    /\ UNCHANGED curveVars

BlackFormula ==
    \E a \in PricingInputs :
        PricerCall("blackFormula", a,
                   blackFormula(a.optionType, a.strike, a.forward, a.stdDev,
                                a.discount, a.displacement))

StdDevDerivative ==
    \E a \in PricingInputs :
        PricerCall("blackFormulaStdDevDerivative", a,
                   blackFormulaStdDevDerivative(a.strike, a.forward, a.stdDev,
                                                a.discount, a.displacement))

CashItmProbability ==
    \E a \in PricingInputs :
        PricerCall("blackFormulaCashItmProbability", a,
                   blackFormulaCashItmProbability(a.optionType, a.strike,
                                                  a.forward, a.stdDev,
                                                  a.displacement))

Bachelier ==
    \E a \in PricingInputs :
        PricerCall("bachelierBlackFormula", a,
                   bachelierBlackFormula(a.optionType, a.strike, a.forward,
                                         a.stdDev, a.discount))

ImpliedStdDevApproximation ==
    \E t \in OptionTypes, k \in Strikes, f \in Forwards, p \in BlackPrices,
       c \in Discounts, d \in Displacements :
        PricerCall("blackFormulaImpliedStdDevApproximation",
                   Args(t, k, f, 0, p, c, 0, 0, d),
                   blackFormulaImpliedStdDevApproximation(t, k, f, p, c, d))

\* price, then impliedStdDev of that price with no guess supplied.
ImpliedStdDevOfPrice ==
    /\ op = "blackFormula"
    /\ ret.kind = "value"
    /\ \E acc \in Accuracies :
         /\ args' = [args EXCEPT !.blackPrice = ret.val, !.guess = NullReal,
                                 !.accuracy = acc]
         /\ ret' \in blackFormulaImpliedStdDev(args.optionType, args.strike,
                                               args.forward, ret.val,
                                               args.discount, NullReal, acc,
                                               args.displacement)
         /\ seed' = ImpliedStdDevGuess(args.optionType, args.strike,
                                       args.forward, ret.val, args.discount,
                                       NullReal, args.displacement)
    /\ op' = "blackFormulaImpliedStdDev"
    /\ UNCHANGED curveVars

\* impliedStdDev of a price, with a guess or with none.
ImpliedStdDev ==
    \E t \in OptionTypes, k \in Strikes, f \in Forwards, p \in BlackPrices,
       c \in Discounts, g \in Guesses, acc \in Accuracies,
       d \in Displacements :
        /\ op = "none"
        /\ op' = "blackFormulaImpliedStdDev"
        /\ args' = Args(t, k, f, 0, p, c, g, acc, d)
        /\ ret' \in blackFormulaImpliedStdDev(t, k, f, p, c, g, acc, d)
        /\ seed' = ImpliedStdDevGuess(t, k, f, p, c, g, d)
        /\ UNCHANGED curveVars

PricerNext ==
    \/ BlackFormula
    \/ StdDevDerivative
    \/ CashItmProbability
    \/ Bachelier
    \/ ImpliedStdDevApproximation
    \/ ImpliedStdDevOfPrice
    \/ ImpliedStdDev

(***************************************************************************)
(* PiecewiseYieldCurve.  The curve object is a record:                     *)
(*   instruments  instruments_: a sequence of [maturity, quote]            *)
(*   calculated   LazyObject::calculated_ (the curve is dirty when FALSE)  *)
(*   nodes        dates_/times_/data_: a sequence of [date, time, value]   *)
(*   fresh        history: a bootstrap has run to completion since         *)
(*                construction and since the most recent update()          *)
(*   ran          history: the last member call ran the bootstrap          *)
(*   failure      history: the error of the last bootstrap, if it failed   *)
(*                and the instruments have not changed since               *)
(*   repeats      history: the bootstrap runs that have failed since the   *)
(*                instruments last changed (counted up to MaxRepeats)      *)
(* Dates are day numbers from the reference date 0, a time is its date,    *)
(* a quote is a simple rate in percent per unit of time and a node value   *)
(* a discount factor in percent.                                           *)
(***************************************************************************)
\* Bounds of the sampled curves.
NumInstruments == 2

MaxMaturity == 2

MaxRepeats == 2

Quotes == {-10, 2, 5}

QueryTimes == 0..MaxMaturity

NoError == [name |-> "none", index |-> 0]

Node(date, value) == [date |-> date, time |-> date, value |-> value]

\* Step 1, sort: the instruments ordered by maturity ascending.
SortedInstruments(ins) ==
    LET n == Len(ins)
        perm == CHOOSE p \in [1..n -> 1..n] :
                   /\ \A i, j \in 1..n : i # j => p[i] # p[j]
                   /\ \A i \in 1..(n - 1) :
                         ins[p[i]].maturity <= ins[p[i + 1]].maturity
    IN  [i \in 1..n |-> ins[perm[i]]]

\* Step 1, validate: two maturities coincide.
DuplicateMaturity(sorted) ==
    \E i \in 1..(Len(sorted) - 1) : sorted[i].maturity = sorted[i + 1].maturity

\* The discount factors the root-finder brackets the node value in.
MinDiscount == 1

MaxDiscount == 100

\* Step 3, the objective f(x) of an instrument: its implied quote, the simple
\* forward rate from the previous node to a node of value x at its maturity,
\* minus its market quote (scaled by the positive factor x * dt).
Objective(ins, prev, x) ==
    (prev.value - x) * 100 - ins.quote * (ins.maturity - prev.time) * x

\* Step 3, the root-finder on [MinDiscount, MaxDiscount]: the root located to
\* the nearest percent, or 0 when the objective does not change sign.
SolveNode(ins, prev) ==
    IF \/ Objective(ins, prev, MinDiscount) < 0
       \/ Objective(ins, prev, MaxDiscount) > 0
    THEN 0
    ELSE CHOOSE x \in MinDiscount..MaxDiscount :
            /\ Objective(ins, prev, x) >= 0
            /\ x = MaxDiscount \/ Objective(ins, prev, x + 1) < 0

\* Steps 3-5 from instrument i on, nodes being the nodes written so far: the
\* nodes the curve is left with and the error raised, if any.
RECURSIVE BootstrapFrom(_, _, _)
BootstrapFrom(sorted, i, nodes) ==
    IF i > Len(sorted) THEN [nodes |-> nodes, error |-> NoError]
    ELSE LET x == SolveNode(sorted[i], nodes[Len(nodes)])
         IN  IF x = 0
             THEN [nodes |-> nodes,
                   error |-> [name |-> "BootstrapConvergenceError", index |-> i]]
             ELSE BootstrapFrom(sorted, i + 1,
                                Append(nodes, Node(sorted[i].maturity, x)))

\* The instruments of a sorted list from i on, each maturity kept once (the
\* first instrument that has it).
RECURSIVE KeepingOne(_, _)
KeepingOne(sorted, i) ==
    IF i > Len(sorted) THEN <<>>
    ELSE IF i > 1 /\ sorted[i].maturity = sorted[i - 1].maturity
    THEN KeepingOne(sorted, i + 1)
    ELSE <<sorted[i]>> \o KeepingOne(sorted, i + 1)

\* Mutant: no validation, one instrument of each maturity bootstrapped.
BootstrapKeepingOne(c) ==
    BootstrapFrom(KeepingOne(SortedInstruments(c.instruments), 1), 1,
                  <<Node(0, MaxDiscount)>>)

\* IterativeBootstrap::calculate, steps 1-5: it writes the nodes into the
\* curve as it goes.
Bootstrap(c) ==
    LET sorted == SortedInstruments(c.instruments)
    IN  IF DuplicateMaturity(sorted)
        THEN [nodes |-> c.nodes,
              error |-> [name |-> "DuplicateMaturityError", index |-> 0]]
        ELSE BootstrapFrom(sorted, 1, <<Node(0, MaxDiscount)>>)

\* The curve after a bootstrap run b, with its history updated.
Bootstrapped(c, b) ==
    [c EXCEPT !.nodes = b.nodes,
              !.ran = TRUE,
              !.fresh = (b.error = NoError),
              !.failure = b.error,
              !.repeats = IF b.error = NoError THEN 0
                          ELSE IF c.repeats < MaxRepeats THEN c.repeats + 1
                          ELSE MaxRepeats]

\* performCalculations, lines 193-197: just delegate to the bootstrapper.
performCalculations(c) ==
    LET b == Bootstrap(c)
    IN  [c |-> Bootstrapped(c, b), error |-> b.error]

\* LazyObject::calculate: recompute if dirty; the dirty flag is cleared by a
\* successful recompute only.
calculate(c) ==
    IF c.calculated THEN [c |-> c, error |-> NoError]
    ELSE LET r == performCalculations(c)
         IN  [c |-> [r.c EXCEPT !.calculated = (r.error = NoError)],
              error |-> r.error]

\* LazyObject::update: mark the curve dirty.
LazyObjectUpdate(c) == [c EXCEPT !.calculated = FALSE, !.fresh = FALSE]

\* The outcome of a member call: the value returned, as a sequence, or the
\* error raised.
Returned(c, val) == [c |-> c, ret |-> [kind |-> "value", val |-> val,
                                       error |-> NoError]]

Raised(c, error) == [c |-> c, ret |-> [kind |-> "error", val |-> <<>>,
                                       error |-> error]]

\* The interpolation of the base curve (linear, flat beyond the last node).
RECURSIVE Interpolated(_, _, _)
Interpolated(nodes, i, t) ==
    IF i = Len(nodes) THEN nodes[i].value
    ELSE IF t <= nodes[i + 1].time
    THEN nodes[i].value
         + ((nodes[i + 1].value - nodes[i].value) * (t - nodes[i].time))
           \div (nodes[i + 1].time - nodes[i].time)
    ELSE Interpolated(nodes, i + 1, t)

\* maxDate, lines 121-125.
maxDate(c) ==
    LET r == calculate(c)
    IN  IF r.error # NoError THEN Raised(r.c, r.error)
        ELSE Returned(r.c, <<r.c.nodes[Len(r.c.nodes)].date>>)

\* times, lines 127-131.
times(c) ==
    LET r == calculate(c)
    IN  IF r.error # NoError THEN Raised(r.c, r.error)
        ELSE Returned(r.c, [i \in 1..Len(r.c.nodes) |-> r.c.nodes[i].time])

\* dates, lines 133-137.
dates(c) ==
    LET r == calculate(c)
    IN  IF r.error # NoError THEN Raised(r.c, r.error)
        ELSE Returned(r.c, [i \in 1..Len(r.c.nodes) |-> r.c.nodes[i].date])

\* Mutant: the data returned without the recompute.
dataUncalculated(c) ==
    Returned(c, [i \in 1..Len(c.nodes) |-> c.nodes[i].value])

\* data, lines 139-143.
data(c) ==
    LET r == calculate(c)
    IN  IF r.error # NoError THEN Raised(r.c, r.error)
        ELSE Returned(r.c, [i \in 1..Len(r.c.nodes) |-> r.c.nodes[i].value])

\* Mutant: the bootstrap's error caught, and the nodes written so far returned.
nodesBestEffort(c) ==
    LET r == calculate(c)
    IN  Returned(r.c, [i \in 1..Len(r.c.nodes) |->
                         <<r.c.nodes[i].date, r.c.nodes[i].value>>])

\* nodes, lines 145-150.
nodes(c) ==
    LET r == calculate(c)
    IN  IF r.error # NoError THEN Raised(r.c, r.error)
        ELSE Returned(r.c, [i \in 1..Len(r.c.nodes) |->
                              <<r.c.nodes[i].date, r.c.nodes[i].value>>])

\* discountImpl, lines 158-163.
discountImpl(c, t) ==
    LET r == calculate(c)
    IN  IF r.error # NoError THEN Raised(r.c, r.error)
        ELSE Returned(r.c, <<Interpolated(r.c.nodes, 1, t)>>)

\* update, lines 152-156.
update(c) == LazyObjectUpdate(c)

\* The constructors, lines 168-191.
PiecewiseYieldCurve(ins) ==
    [instruments |-> ins, calculated |-> FALSE, nodes |-> <<>>,
     fresh |-> FALSE, ran |-> FALSE, failure |-> NoError, repeats |-> 0]

InstrumentLists ==
    [1..NumInstruments ->
        [maturity : 1..MaxMaturity, quote : Quotes]]

AccessorNames == {"maxDate", "times", "dates", "data", "nodes", "discountImpl"}

\* A member call starts with the history flag "ran" cleared.
Entering == [curve EXCEPT !.ran = FALSE]

CurveCall(name, result) ==
    /\ curveOp' = name
    /\ curve' = result.c
    /\ curveRet' = result.ret
    /\ UNCHANGED pricerVars

MaxDate == CurveCall("maxDate", maxDate(Entering))

Times == CurveCall("times", times(Entering))

Dates == CurveCall("dates", dates(Entering))

Data == CurveCall("data", data(Entering))

Nodes == CurveCall("nodes", nodes(Entering))

Discount == \E t \in QueryTimes : CurveCall("discountImpl", discountImpl(Entering, t))

NoReturn == [kind |-> "none", val |-> <<>>, error |-> NoError]

Update ==
    /\ curveOp' = "update"
    /\ curve' = update(Entering)
    /\ curveRet' = NoReturn
    /\ UNCHANGED pricerVars

\* The quote of instrument i changes: the instrument notifies the curve, its
\* observer, which runs update().
SetQuote ==
    \E i \in 1..NumInstruments, q \in Quotes :
        /\ q # curve.instruments[i].quote
        /\ curveOp' = "setQuote"
        /\ curve' = [update(Entering) EXCEPT !.instruments[i].quote = q,
                                             !.failure = NoError,
                                             !.repeats = 0]
        /\ curveRet' = NoReturn
        /\ UNCHANGED pricerVars

CurveNext ==
    \/ MaxDate
    \/ Times
    \/ Dates
    \/ Data
    \/ Nodes
    \/ Discount
    \/ Update
    \/ SetQuote

Init ==
    /\ op = "none"
    /\ args = NoArgs
    /\ ret = NoOutcome
    /\ seed = NoOutcome
    /\ curve \in {PiecewiseYieldCurve(ins) : ins \in InstrumentLists}
    /\ curveOp = "none"
    /\ curveRet = NoReturn

\* The pricing functions, called on a single curve left alone.
PricerInit ==
    /\ Init
    /\ curve = PiecewiseYieldCurve([i \in 1..NumInstruments |->
                                      [maturity |-> i, quote |-> 2]])

Spec == PricerInit /\ [][PricerNext]_vars

\* The curve, with no pricing function called.
CurveSpec == Init /\ [][CurveNext]_vars

(***************************************************************************)
(* Properties of the pricing functions, checked under Spec.                *)
(***************************************************************************)
\* The argument tuple passes the five checks of blackFormula.
ValidArgs ==
    /\ args.strike >= 0
    /\ args.forward > 0
    /\ args.stdDev >= 0
    /\ args.discount > 0
    /\ args.displacement >= 0

\* C1: blackFormula and blackFormulaStdDevDerivative raise InvalidArgument,
\* with nothing computed, exactly when strike<0 or forward<=0 or stdDev<0 or
\* discount<=0 or displacement<0: both reject the same argument tuples.
C1_RejectsExactlyInvalid ==
    op \in {"blackFormula", "blackFormulaStdDevDerivative"} =>
        /\ ret.kind = "InvalidArgument" <=>
              \/ args.strike < 0
              \/ args.forward <= 0
              \/ args.stdDev < 0
              \/ args.discount <= 0
              \/ args.displacement < 0
        /\ ret.kind = "InvalidArgument" => ret.branch = "rejected" /\ ret.raw = 0

\* C1 witness: the derivative rejects a tuple whose only fault is a negative
\* displacement.
C1_Witness ==
    /\ op = "blackFormulaStdDevDerivative"
    /\ ret.kind = "InvalidArgument"
    /\ args.strike >= 0 /\ args.forward > 0 /\ args.stdDev >= 0
    /\ args.discount > 0 /\ args.displacement < 0

\* typeSign * ((forward+displacement) - (strike+displacement)), floored at 0,
\* in whole units (the sampled strikes and forwards are whole).
IntrinsicUnits ==
    Max(args.optionType * ((args.forward + args.displacement)
                           - (args.strike + args.displacement)), 0) \div ONE

\* C2: for valid arguments with stdDev = 0, blackFormula returns exactly
\* discount * max(typeSign*((forward+displacement)-(strike+displacement)), 0);
\* Call, strike 90, forward 100, discount 0.95 gives exactly 9.5.
C2_ZeroStdDevIsDiscountedIntrinsic ==
    /\ (op = "blackFormula" /\ ValidArgs /\ args.stdDev = 0) =>
          /\ ret.kind = "value"
          /\ ret.val = args.discount * IntrinsicUnits
    /\ (/\ op = "blackFormula" /\ args.optionType = Call
        /\ args.strike = 90 * ONE /\ args.forward = 100 * ONE
        /\ args.stdDev = 0 /\ args.discount = 950000
        /\ args.displacement >= 0) =>
          ret.kind = "value" /\ ret.val = 9500000

\* C2 witness: the scenario's call has been priced at 9.5.
C2_Witness ==
    /\ op = "blackFormula" /\ args.optionType = Call
    /\ args.strike = 90 * ONE /\ args.forward = 100 * ONE
    /\ args.stdDev = 0 /\ args.discount = 950000 /\ args.displacement = 0
    /\ ret.val = 9500000

\* C3: for valid arguments with stdDev > 0, blackFormula takes its zero-strike
\* branch exactly when strike+displacement = 0, which happens only for
\* strike = 0 and displacement = 0; there it returns
\* discount*(forward+displacement) for a Call and 0 for a Put; otherwise it
\* takes the general branch, so log(F/K) is evaluated with K # 0 only.
C3_ZeroStrikeBranch ==
    (op = "blackFormula" /\ ValidArgs /\ args.stdDev > 0) =>
        /\ ret.branch = "zeroStrike" <=> args.strike + args.displacement = 0
        /\ args.strike + args.displacement = 0 =>
              args.strike = 0 /\ args.displacement = 0
        /\ ret.branch = "zeroStrike" =>
              /\ ret.kind = "value"
              /\ ret.val = IF args.optionType = Call
                           THEN Mul(args.discount,
                                    args.forward + args.displacement)
                           ELSE 0
        /\ ret.branch # "zeroStrike" =>
              ret.branch = "general" /\ args.strike + args.displacement # 0

\* C3 witness: a call priced on the zero-strike branch.
C3_Witness ==
    /\ op = "blackFormula" /\ ValidArgs /\ args.stdDev > 0
    /\ args.optionType = Call /\ args.discount = 950000
    /\ ret.branch = "zeroStrike" /\ ret.val > 0

\* C4: every value blackFormula and bachelierBlackFormula return is >= 0, on
\* each return path, and a negative result of the general formula raises the
\* guard failure: it is neither returned nor clamped.
C4_ReturnedPriceNonNegative ==
    op \in {"blackFormula", "bachelierBlackFormula"} =>
        /\ ret.kind = "value" =>
              /\ ret.val >= 0
              /\ ret.val = ret.raw
              /\ ret.branch \in {"intrinsic", "zeroStrike", "general"}
        /\ ret.raw < 0 => ret.kind = "GuardFailure" /\ ret.branch = "general"

\* C4 witness: a negative general-formula result has raised the guard failure.
C4_Witness ==
    /\ op = "bachelierBlackFormula"
    /\ args.stdDev > 0 /\ args.discount > 0
    /\ ret.kind = "GuardFailure" /\ ret.raw < 0

\* The round trip has been made: blackFormula, then blackFormulaImpliedStdDev
\* of the returned price with no guess.
RoundTripMade ==
    /\ op = "blackFormulaImpliedStdDev"
    /\ args.guess = NullReal
    /\ ValidArgs

\* The solve returned the original stdDev to within the accuracy.
RoundTripRecovers ==
    /\ ret.kind = "value"
    /\ Abs(ret.val - args.stdDev) <= args.accuracy

\* The price tells the original stdDev from stdDev - accuracy and from
\* stdDev + accuracy: its time value is not lost to rounding.
PriceResolvesStdDev ==
    LET price(s) == blackFormula(args.optionType, args.strike, args.forward, s,
                                 args.discount, args.displacement).val
    IN  /\ price(args.stdDev - args.accuracy) < args.blackPrice
        /\ args.blackPrice < price(args.stdDev + args.accuracy)

\* C5 as claimed: the round trip recovers every stdDev > 0, also above 3.0.
C5_RoundTripAnyStdDev ==
    (RoundTripMade /\ args.stdDev > 0) => RoundTripRecovers

\* C5: the round trip recovers every stdDev strictly inside the solver's
\* bracket, 0 < stdDev < 3.0, when the shifted strike is positive and the
\* price resolves stdDev; above the bracket the solve fails with a
\* convergence error.
C5_RoundTripInsideBracket ==
    /\ (/\ RoundTripMade
        /\ args.stdDev > minStdDev /\ args.stdDev < maxStdDev
        /\ args.strike + args.displacement > 0
        /\ PriceResolvesStdDev) => RoundTripRecovers
    /\ (/\ RoundTripMade
        /\ args.stdDev > maxStdDev
        /\ args.strike + args.displacement > 0
        /\ PriceResolvesStdDev) => ret.kind = "ConvergenceError"

\* C5 witness: a stdDev of 2.5 recovered for a displaced, discounted put.
C5_Witness ==
    /\ RoundTripMade /\ RoundTripRecovers /\ PriceResolvesStdDev
    /\ args.stdDev = 2500000 /\ args.optionType = Put
    /\ args.displacement > 0 /\ args.discount = 950000
    /\ args.strike # args.forward

\* C6: for stdDev > 0, bachelierBlackFormula returns
\* discount * (stdDev*phi(h) + d*Phi(h)), d = typeSign*(forward-strike),
\* h = d/stdDev, up to the rounding of the last digits.
C6_BachelierDiscountsWholeValue ==
    (op = "bachelierBlackFormula" /\ args.stdDev > 0 /\ ret.kind = "value") =>
        LET d == (args.forward - args.strike) * args.optionType
            h == Div(d, args.stdDev)
            undiscounted == Mul(args.stdDev, NormalDerivative(h))
                            + Mul(d, CumulativeNormal(h))
        IN  Abs(ret.val - Mul(args.discount, undiscounted)) <= 10

\* C7: for valid arguments blackFormulaCashItmProbability returns, without an
\* error, 1 or 0 by moneyness when stdDev = 0; for stdDev > 0 the constant
\* 1 (Call) / 0 (Put) when strike+displacement = 0, and in every other case
\* Phi(typeSign*d2) computed from the shifted forward and strike.
C7_CashItmBranchesOnShiftedStrike ==
    (op = "blackFormulaCashItmProbability" /\ ValidArgs) =>
        /\ ret.kind = "value"
        /\ args.stdDev = 0 =>
              ret.val = IF args.optionType * (args.forward - args.strike) > 0
                        THEN ONE ELSE 0
        /\ (args.stdDev > 0 /\ args.strike + args.displacement = 0) =>
              ret.val = IF args.optionType = Call THEN ONE ELSE 0
        /\ (args.stdDev > 0 /\ args.strike + args.displacement # 0) =>
              ret.val = CashItmGeneral(args.optionType,
                                       args.forward + args.displacement,
                                       args.strike + args.displacement,
                                       args.stdDev).val

\* The arguments pass the five checks of the approximation.
ValidApproximationArgs ==
    /\ op = "blackFormulaImpliedStdDevApproximation"
    /\ args.strike >= 0
    /\ args.forward > 0
    /\ args.blackPrice >= 0
    /\ args.discount > 0
    /\ args.displacement >= 0

\* The off-the-money discriminant (price/discount - delta/2)^2 - delta^2/pi of
\* the arguments is negative.
NegativeDiscriminant ==
    /\ args.strike # args.forward
    /\ Discriminant(args.optionType, args.strike + args.displacement,
                    args.forward + args.displacement, args.blackPrice,
                    args.discount) < 0

\* price/discount is at least half the signed moneyness typeSign*(F-K).
PriceCoversHalfMoneyness ==
    Div(args.blackPrice, args.discount)
        >= (args.optionType * (args.forward - args.strike)) \div 2

\* C8 as claimed: the approximation never fails for arguments that pass its
\* validation, and returns a value >= 0.
C8_ApproximationNeverFails ==
    ValidApproximationArgs => ret.kind = "value" /\ ret.val >= 0

\* C8: for validated arguments a negative discriminant is replaced by 0, not
\* reported; a value >= 0 is returned whenever price/discount is at least
\* typeSign*(forward-strike)/2, and for a lower price the stdDev>=0
\* post-condition fails.
C8_ClampedApproximation ==
    ValidApproximationArgs =>
        /\ NegativeDiscriminant <=> ret.branch = "clamped"
        /\ (args.strike = args.forward \/ PriceCoversHalfMoneyness) =>
              ret.kind = "value" /\ ret.val >= 0
        /\ (args.strike # args.forward /\ ~PriceCoversHalfMoneyness) =>
              ret.kind = "GuardFailure" /\ ret.branch = "clamped"

\* C8 witness: a negative discriminant clamped, and a positive stdDev returned.
C8_Witness ==
    /\ ValidApproximationArgs /\ NegativeDiscriminant
    /\ ret.kind = "value" /\ ret.val > 0 /\ ret.branch = "clamped"

(***************************************************************************)
(* Properties of the curve, checked under CurveSpec.                       *)
(***************************************************************************)
\* C9: no accessor returns a value while the curve is dirty: whenever one
\* has returned, a full bootstrap of the current instruments has completed
\* since construction and since the most recent update(), and the curve holds
\* that bootstrap's nodes; update() always leaves the curve dirty.
C9_AccessorsRecomputeFirst ==
    /\ curveRet.kind = "value" =>
          /\ curveOp \in AccessorNames
          /\ curve.calculated
          /\ curve.fresh
          /\ Bootstrap(curve).error = NoError
          /\ curve.nodes = Bootstrap(curve).nodes
    /\ curveOp = "update" => ~curve.calculated /\ ~curve.fresh

\* C9 witness: data() has run the bootstrap and returned the values of the
\* three nodes.
C9_Witness ==
    /\ curveOp = "data"
    /\ curveRet.kind = "value"
    /\ curve.ran
    /\ Len(curveRet.val) = NumInstruments + 1

\* The step is a call of an accessor.
AccessorCall == curveOp' \in AccessorNames

\* C10: a query whose bootstrap fails raises the error and returns no node
\* data, and the curve stays dirty; while the instruments are unchanged no
\* query returns a value, and every later query reruns the bootstrap and
\* raises the same error.
C10_FailureNotCached ==
    /\ [](curveRet.kind = "error" =>
            /\ curveOp \in AccessorNames
            /\ curveRet.val = <<>>
            /\ curveRet.error = Bootstrap(curve).error
            /\ curve.ran
            /\ ~curve.calculated)
    /\ [](curve.failure # NoError =>
            curveRet.kind # "value" /\ ~curve.calculated)
    /\ [][(/\ curve.failure # NoError
           /\ AccessorCall
           /\ curve'.instruments = curve.instruments) =>
             /\ curveRet'.kind = "error"
             /\ curveRet'.error = curve.failure
             /\ curve'.ran
             /\ ~curve'.calculated]_vars

\* C10 witness: nodes() has failed again on the second instrument, on
\* unchanged instruments, with the first node left written in the curve.
C10_Witness ==
    /\ curveOp = "nodes"
    /\ curveRet.kind = "error"
    /\ curveRet.error = [name |-> "BootstrapConvergenceError", index |-> 2]
    /\ curve.repeats >= 2
    /\ Len(curve.nodes) = 2

\* Two instruments of the list given to the curve have the same maturity.
HasDuplicateMaturity ==
    \E i, j \in 1..Len(curve.instruments) :
        /\ i # j
        /\ curve.instruments[i].maturity = curve.instruments[j].maturity

\* C11: when two instruments given to the curve have the same maturity, in
\* whatever order the list holds them, every query fails with the
\* duplicate-maturity error, the curve stays dirty and no node is written: the
\* bootstrap never succeeds by keeping one of the two.
C11_DuplicateMaturityRejected ==
    HasDuplicateMaturity =>
        /\ ~curve.calculated
        /\ curve.nodes = <<>>
        /\ curveRet.kind # "value"
        /\ curveOp \in AccessorNames =>
              /\ curveRet.kind = "error"
              /\ curveRet.error.name = "DuplicateMaturityError"
              /\ curve.ran

\* C11 witness: the first query, discountImpl, of a curve built on two
\* instruments of the same maturity and different quotes, the later-listed
\* one with the lower quote, has run the bootstrap and raised the error.
C11_Witness ==
    /\ HasDuplicateMaturity
    /\ curve.instruments[1].quote > curve.instruments[2].quote
    /\ curveOp = "discountImpl"
    /\ curve.ran
    /\ curve.repeats = 1
    /\ curveRet.error.name = "DuplicateMaturityError"

(***************************************************************************)
(* Properties of the seed of blackFormulaImpliedStdDev, checked under Spec. *)
(***************************************************************************)
\* The call of blackFormulaImpliedStdDev passed the five checks of lines
\* 199-208.
ValidImpliedStdDevArgs ==
    /\ op = "blackFormulaImpliedStdDev"
    /\ ImpliedStdDevRequire(args.strike, args.forward, args.blackPrice,
                            args.discount, args.displacement)

\* The call reached solver.solve.
SolverInvoked == ret.branch \in {"solved", "notBracketed"}

\* What blackFormulaImpliedStdDevApproximation returns for the caller's own
\* arguments.
CallersApproximation ==
    blackFormulaImpliedStdDevApproximation(args.optionType, args.strike,
                                           args.forward, args.blackPrice,
                                           args.discount, args.displacement)

\* C12 as claimed: with no guess supplied the seed of the root-finder is what
\* the approximation returns for the caller's own arguments, displacement
\* applied once to strike and forward; a negative guess supplied is rejected
\* with InvalidArgument before the solver is invoked.
C12_SeedIsCallersApproximation ==
    /\ (ValidImpliedStdDevArgs /\ args.guess = NullReal) =>
          /\ seed.kind = CallersApproximation.kind
          /\ seed.val = CallersApproximation.val
    /\ (op = "blackFormulaImpliedStdDev" /\ args.guess < 0) =>
          /\ ret = InvalidArgument
          /\ seed = InvalidArgument
          /\ ~SolverInvoked

====
